---- MODULE Spec2Model ----
(***************************************************************************)
(* Model of the item pipeline of data_collection/gazette/pipelines.py:     *)
(*   GazetteDateFilteringPipeline -> DefaultValuesPipeline ->              *)
(*   QueridoDiarioFilesPipeline (+ QueridoDiarioFSFilesStore) ->           *)
(*   SQLDatabasePipeline.                                                  *)
(* The pipeline classes are driven by Scrapy: a single-threaded reactor    *)
(* that runs each synchronous handler to completion and interleaves the    *)
(* records only where a download is awaited.  The variable running holds   *)
(* the record whose synchronous chain currently owns the reactor.          *)
(* The inherited parts of FilesPipeline / FSFilesStore (request cache,     *)
(* stat of a path, write of a file) are modelled at the places where the   *)
(* repository's overrides call or are called by them.                      *)
(*                                                                         *)
(* Environment: a download ends with a body or with a failure; a commit    *)
(* stores the pending rows or raises SQLAlchemyError (whatever the cause:  *)
(* the schema of gazette.database.models is not part of these sources);    *)
(* the clock may show a whole second.  Stored files do not expire between  *)
(* the runs (FILES_EXPIRES) and the HTTP cache is off, so a fetched file   *)
(* has status "downloaded".                                                *)
(***************************************************************************)
EXTENDS Integers, Sequences, FiniteSets, TLC

\* ------------------------------------------------------------------ bounds
NumItems == 2
MaxFiles == 2
NumRuns  == 2
\* how many rare events happen over the runs: a download that fails, a commit
\* that raises, a clock reading that falls on a whole second
MaxFaults == 1

\* -------------------------------------------------------- program constants
max_file_header_size == 261

Null == "None"

\* None, and the absence of an attribute, where the value is an object
Absent == [absent |-> TRUE]

ItemIds == 1..NumItems

\* ------------------------------------------------------------ text helpers
DigitChars == <<"0", "1", "2", "3", "4", "5", "6", "7", "8", "9">>

IsDigit(c) == \E k \in 1..10 : DigitChars[k] = c

DigitVal(c) == (CHOOSE k \in 1..10 : DigitChars[k] = c) - 1

RECURSIVE Pow10(_)
Pow10(w) == IF w = 0 THEN 1 ELSE 10 * Pow10(w - 1)

\* n written with exactly w decimal digits (zero padded), as "%0wd" does
Digits(n, w) == [k \in 1..w |-> DigitChars[((n \div Pow10(w - k)) % 10) + 1]]

AllDigits(t) == \A k \in 1..Len(t) : IsDigit(t[k])

RECURSIVE Number(_)
Number(t) == IF t = <<>> THEN 0
             ELSE 10 * Number(SubSeq(t, 1, Len(t) - 1)) + DigitVal(t[Len(t)])

\* ------------------------------------------------------------------- dates
\* datetime.date values; comparison is the lexicographic one of (y, m, d)
DateOld == [y |-> 2023, m |-> 12, d |-> 31]
DateNew == [y |-> 2024, m |-> 1, d |-> 5]
Dates == {DateOld, DateNew}

\* (variant: the comparison also holds for equal dates)
DateGE(a, b) ==
    \/ a.y > b.y
    \/ a.y = b.y /\ a.m > b.m
    \/ a.y = b.y /\ a.m = b.m /\ a.d >= b.d

DateGT(a, b) ==
    \/ a.y > b.y
    \/ a.y = b.y /\ a.m > b.m
    \/ a.y = b.y /\ a.m = b.m /\ a.d > b.d

\* str(date): date.isoformat() = "%04d-%02d-%02d"
DateStr(dte) == Digits(dte.y, 4) \o <<"-">> \o Digits(dte.m, 2) \o <<"-">> \o Digits(dte.d, 2)

\* datetime.utcnow(): the instants the clock may show
Instants ==
    { [date |-> [y |-> 2024, m |-> 1, d |-> 6], h |-> 10, mi |-> 30, s |-> 0, us |-> u] :
        u \in {0, 250000} }

\* datetime.isoformat("T"): the fraction is written only when microsecond # 0
IsoFormat(t) ==
    DateStr(t.date) \o <<"T">> \o Digits(t.h, 2) \o <<":">> \o Digits(t.mi, 2)
        \o <<":">> \o Digits(t.s, 2)
        \o (IF t.us = 0 THEN <<>> ELSE <<".">> \o Digits(t.us, 6))

ValueError == [error |-> "ValueError"]

\* datetime.strptime(text, "%Y-%m-%d").date() on zero padded text
StrpDate(t) ==
    IF /\ Len(t) = 10
       /\ AllDigits(SubSeq(t, 1, 4)) /\ t[5] = "-"
       /\ AllDigits(SubSeq(t, 6, 7)) /\ t[8] = "-"
       /\ AllDigits(SubSeq(t, 9, 10))
    THEN [y |-> Number(SubSeq(t, 1, 4)), m |-> Number(SubSeq(t, 6, 7)),
          d |-> Number(SubSeq(t, 9, 10))]
    ELSE ValueError

\* datetime.strptime(text, "%Y-%m-%dT%H:%M:%S.%fZ"): the "." and the fraction
\* (one to six digits) are required, and so is the final "Z"
StrpDateTime(t) ==
    IF /\ Len(t) >= 22 /\ Len(t) <= 27
       /\ StrpDate(SubSeq(t, 1, 10)) # ValueError
       /\ t[11] = "T"
       /\ AllDigits(SubSeq(t, 12, 13)) /\ t[14] = ":"
       /\ AllDigits(SubSeq(t, 15, 16)) /\ t[17] = ":"
       /\ AllDigits(SubSeq(t, 18, 19)) /\ t[20] = "."
       /\ AllDigits(SubSeq(t, 21, Len(t) - 1))
       /\ t[Len(t)] = "Z"
    THEN [date |-> StrpDate(SubSeq(t, 1, 10)),
          h |-> Number(SubSeq(t, 12, 13)), mi |-> Number(SubSeq(t, 15, 16)),
          s |-> Number(SubSeq(t, 18, 19)),
          us |-> Number(SubSeq(t, 21, Len(t) - 1)) * Pow10(27 - Len(t))]
    ELSE ValueError

\* ------------------------------------------------------ requests and bodies
\* Two file URLs: one whose name carries no extension, one that ends in .pdf
UrlPlain == [loc |-> "a", suffix |-> ""]
UrlPdf   == [loc |-> "b", suffix |-> "pdf"]
Urls == {UrlPlain, UrlPdf}

\* Request(u, callback=NO_CALLBACK, headers=download_file_headers)
UrlRequest(u) == [url |-> u, method |-> "GET", body |-> ""]

\* ready-made requests a spider may put in file_requests (a form post to the
\* same URL as UrlPdf: another request whose file has the name of UrlPdf's)
FormRequests == {[url |-> UrlPdf, method |-> "POST", body |-> "form"]}

\* the request fingerprint the media pipeline keys its cache on
Fingerprint(r) == <<r.method, r.url, r.body>>

\* response bodies the server may send: a PDF ("%PDF-") and an HTML page ("<ht")
BodyPdf  == <<37, 80, 68, 70, 45>>
BodyHtml == <<60, 104, 116>>
Bodies == {BodyPdf, BodyHtml}

\* md5sum of a byte string (an injective digest)
Md5(b) == <<"md5">> \o b

\* sha1 hex digest of the URL, the base name FilesPipeline.file_path gives
Sha1(u) == <<"sha1", u.loc, u.suffix>>

\* the signature table of filetype.guess, restricted to two kinds
Signatures == { [extension |-> "pdf", magic |-> <<37, 80, 68, 70>>],
                [extension |-> "zip", magic |-> <<80, 75, 3, 4>>] }

Min(a, b) == IF a < b THEN a ELSE b

StartsWith(b, m) == Len(b) >= Len(m) /\ SubSeq(b, 1, Len(m)) = m

\* filetype.guess(header): the matching kind, or None
Guess(header) ==
    IF \E k \in Signatures : StartsWith(header, k.magic)
    THEN (CHOOSE k \in Signatures : StartsWith(header, k.magic))
    ELSE Absent

\* QueridoDiarioFilesPipeline._detect_extension
\* (variant: the slice keeps what follows the header instead of the header)
DetectExtensionTail(response) ==
    LET file_kind == Guess(SubSeq(response.body, max_file_header_size + 1,
                                  Len(response.body)))
    IN  IF file_kind = Absent THEN "" ELSE file_kind.extension

DetectExtension(response) ==
    LET file_kind == Guess(SubSeq(response.body, 1,
                               Min(Len(response.body), max_file_header_size)))
    IN  IF file_kind = Absent THEN "" ELSE file_kind.extension

\* a downloaded response
Response(body) == [body |-> body]

\* (variant: the leading directory "full" of the default layout is kept in
\* the place of the territory)
FilePathFull(request, response, item) ==
    LET stem == Sha1(request.url)
        suffix == request.url.suffix
        extension == IF suffix = "" /\ response # Absent
                     THEN DetectExtension(response) ELSE ""
    IN  [territory_id |-> "full", date |-> item.date, stem |-> stem,
         suffix |-> IF extension # "" THEN extension ELSE suffix]

\* QueridoDiarioFilesPipeline.file_path; response is a Response or Absent.
\* super().file_path gives full/<sha1(url)><url suffix>; only its name is kept.
FilePath(request, response, item) ==
    LET stem == Sha1(request.url)
        suffix == request.url.suffix
        extension == IF suffix = "" /\ response # Absent
                     THEN DetectExtension(response) ELSE ""
    IN  [territory_id |-> item.territory_id, date |-> item.date, stem |-> stem,
         suffix |-> IF extension # "" THEN extension ELSE suffix]

\* str(Path(territory_id, date, filename)), line 187: the text of a path
PathStr(path) ==
    <<path.territory_id, "/">> \o path.date \o <<"/">> \o path.stem
        \o (IF path.suffix = "" THEN <<>> ELSE <<".", path.suffix>>)

\* ----------------------------------------------------------- the file store
\* The storage root: a set of files [path, body], at most one per path.
FileAt(files, path) == {f \in files : f.path = path}

\* FSFilesStore.persist_file: write_bytes replaces the file at the path; the
\* write is made inside the reactor's callback, so no other write runs
\* between its first and its last byte
\* (variant: the file is opened for appending instead of being replaced)
PersistFileAppend(files, path, body) ==
    (files \ FileAt(files, path)) \union
        {[path |-> path,
          body |-> IF FileAt(files, path) = {} THEN body
                   ELSE (CHOOSE f \in FileAt(files, path) : TRUE).body \o body]}

PersistFile(files, path, body) ==
    (files \ FileAt(files, path)) \union {[path |-> path, body |-> body]}

\* QueridoDiarioFSFilesStore._find_file: glob("<name>.*") in the directory of
\* the path; files[0] is whichever match the directory scan lists first, so
\* the result is any of the matches, and the path itself when there is none.
\* (variant: no scan of the directory, the path is returned as it is)
FindFileExact(files, path) == {path}

FindFile(files, path) ==
    LET matches == {f.path : f \in {g \in files :
                        /\ g.path.territory_id = path.territory_id
                        /\ g.path.date = path.date
                        /\ g.path.stem = path.stem
                        /\ g.path.suffix # ""}}
    IN  IF matches # {} THEN matches ELSE {path}

\* FSFilesStore.stat_file: {} when the file is missing, else its checksum
BaseStatFile(files, path) ==
    IF FileAt(files, path) = {} THEN Absent
    ELSE [checksum |-> Md5((CHOOSE f \in FileAt(files, path) : TRUE).body)]

\* QueridoDiarioFSFilesStore.stat_file: the set of paths whose stat it may
\* return (one path unless several files share the base name)
\* (variant: the path is always probed as given)
StatTargetsAsGiven(files, path) == {path}

StatTargets(files, path) ==
    IF path.suffix # "" THEN {path} ELSE FindFile(files, path)

\* ------------------------------------------------------------------ state
VARIABLES
    settings,   \* start_date and TERRITORY_ID of the spider (Absent, Null: the
                \* spider class does not define it), QUERIDODIARIO_DATABASE_URL
    Session,    \* SQLDatabasePipeline.Session, the session factory, or Absent
    input,      \* the records the spider yields, the same in every run
    run,        \* number of the current run of the crawler
    item,       \* the record of each item, mutated in place by the stages
    pc,         \* the stage each item is at
    running,    \* the item whose synchronous handler chain owns the reactor, or 0
    results,    \* per item, the results of its media requests (the DeferredList)
    info,       \* the media pipeline's per-run downloading set and result cache
    fs,         \* the files under FILES_STORE
    db,         \* the rows of the gazettes table
    sink,       \* per item, the locals of SQLDatabasePipeline.process_item
    fate,       \* per item and file, what the sink did with the file (history)
    dlLog,      \* the downloads written to the store (history)
    prevResults, \* the media results of every item at the end of the previous run
    fsAtStart,  \* the storage root as the current run found it
    faults      \* how many of the rare events have happened so far

vars == <<settings, Session, input, run, item, pc, running, results, info, fs, db, sink,
          fate, dlLog, prevResults, fsAtStart, faults>>

SeqsUpTo(S, n) == UNION {[1..k -> S] : k \in 0..n}

\* the file references of one record: file_urls (each URL at most once) and
\* file_requests (at most one form), MaxFiles references at most
UrlLists == {<<>>, <<UrlPlain>>, <<UrlPdf>>, <<UrlPlain, UrlPdf>>}

FileLists ==
    {fl \in [file_urls : UrlLists, file_requests : SeqsUpTo(FormRequests, 1)] :
        Len(fl.file_urls) + Len(fl.file_requests) <= MaxFiles}

\* the item a spider yields for record i
Scraped(i, dte, fl) ==
    [date |-> dte, edition_number |-> i, is_extra_edition |-> FALSE,
     power |-> "executive", source_text |-> <<"text", i>>,
     file_urls |-> fl.file_urls, file_requests |-> fl.file_requests,
     territory_id |-> Null, scraped_at |-> Null, files |-> <<>>]

\* The records differ only in their number, so a batch is taken in one order
\* of its records' contents: Rank orders the contents.
Rank(dte, fl) ==
    (IF dte = DateNew THEN 8 ELSE 0)
      + 2 * (CHOOSE n \in 0..3 : <<<<>>, <<UrlPlain>>, <<UrlPdf>>, <<UrlPlain, UrlPdf>>>>[n + 1] = fl.file_urls)
      + Len(fl.file_requests)

\* SQLDatabasePipeline.open_spider: the session factory is made only when a
\* database URL is configured
\* (variant: the factory is made whatever the configuration says)
OpenSpiderAlways(database_url) == [bind |-> database_url]

OpenSpider(database_url) ==
    IF database_url # Null THEN [bind |-> database_url] ELSE Absent

NoSink == [session |-> "none", pending |-> <<>>, gazette_item |-> Absent, k |-> 0]

NoInfo == [downloading |-> {}, downloaded |-> {}]

Init ==
    /\ settings \in [start_date : {Absent, DateNew}, TERRITORY_ID : {"X", Null},
                     database_url : {Null, "postgresql"}]
    /\ \E dts \in [ItemIds -> Dates], fls \in [ItemIds -> FileLists] :
           /\ \A i \in 1..(NumItems - 1) : Rank(dts[i], fls[i]) <= Rank(dts[i + 1], fls[i + 1])
           /\ input = [i \in ItemIds |-> Scraped(i, dts[i], fls[i])]
    /\ Session = OpenSpider(settings.database_url)
    /\ run = 1
    /\ item = input
    /\ pc = [i \in ItemIds |-> "new"]
    /\ running = 0
    /\ results = [i \in ItemIds |-> <<>>]
    /\ info = NoInfo
    /\ fs = {}
    /\ db = {}
    /\ sink = [i \in ItemIds |-> NoSink]
    /\ fate = [i \in ItemIds |-> <<>>]
    /\ dlLog = {}
    /\ prevResults = [i \in ItemIds |-> <<>>]
    /\ fsAtStart = {}
    /\ faults = 0

\* ------------------------------------------------------------- DateGate
\* GazetteDateFilteringPipeline.process_item
\* (variant: the two dates are compared the other way round)
DroppedReversed(spider, it) ==
    spider.start_date # Absent /\ DateGT(it.date, spider.start_date)

Dropped(spider, it) ==
    spider.start_date # Absent /\ DateGT(spider.start_date, it.date)

DateGate(i) ==
    /\ running = 0
    /\ pc[i] = "new"
    /\ IF Dropped(settings, item[i])
       THEN /\ pc' = [pc EXCEPT ![i] = "dropped"]
            /\ UNCHANGED running
       ELSE /\ pc' = [pc EXCEPT ![i] = "gated"]
            /\ running' = i
    /\ UNCHANGED <<settings, Session, input, run, item, results, info, fs, db, sink, fate,
                   dlLog, prevResults, fsAtStart, faults>>

\* ------------------------------------------------------------ Normalizer
\* DefaultValuesPipeline.process_item
DefaultValues(it, spider, now) ==
    [it EXCEPT !.territory_id = spider.TERRITORY_ID,
               !.date = DateStr(it.date),
               !.scraped_at = IsoFormat(now) \o <<"Z">>]

Normalize(i) ==
    /\ running = i
    /\ pc[i] = "gated"
    /\ IF settings.TERRITORY_ID = Null
       THEN \* getattr(spider, "TERRITORY_ID") raises AttributeError
            /\ pc' = [pc EXCEPT ![i] = "error"]
            /\ running' = 0
            /\ UNCHANGED <<item, faults>>
       ELSE /\ \E now \in Instants :
                   /\ now.us = 0 => faults < MaxFaults
                   /\ item' = [item EXCEPT ![i] = DefaultValues(item[i], settings, now)]
                   /\ faults' = IF now.us = 0 THEN faults + 1 ELSE faults
            /\ pc' = [pc EXCEPT ![i] = "media"]
            /\ UNCHANGED running
    /\ UNCHANGED <<settings, Session, input, run, results, info, fs, db, sink,
                   fate, dlLog, prevResults, fsAtStart>>

\* ---------------------------------------------------------- ContentStore
\* QueridoDiarioFilesPipeline.get_media_requests: the URLs first, then the
\* ready requests
MediaRequests(it) ==
    [k \in 1..Len(it.file_urls) |-> UrlRequest(it.file_urls[k])] \o it.file_requests

Pending(fp) == [state |-> "pending", fp |-> fp]

Ok(value) == [state |-> "ok", value |-> value]

Failed == [state |-> "failed"]

HasPending(rs) == \E k \in 1..Len(rs) : rs[k].state = "pending"

Cached(fp) == {c \in info.downloaded : c.fp = fp}

\* the result the media pipeline gives when stat_file finds the file: the
\* path is file_path(request, item=item), computed without a response
UpToDate(request, path, stat) ==
    Ok([url |-> request.url, path |-> path, checksum |-> stat.checksum,
        status |-> "uptodate"])

\* One media request of item i is processed: answered from the run's cache,
\* queued behind a download of the same fingerprint, or probed in the store
\* (stat_file) and then answered as uptodate or sent to the downloader.
MediaRequest(i) ==
    /\ running = i
    /\ pc[i] = "media"
    /\ Len(results[i]) < Len(MediaRequests(item[i]))
    /\ LET request == MediaRequests(item[i])[Len(results[i]) + 1]
           fp == Fingerprint(request)
           path == FilePath(request, Absent, item[i])
       IN  IF Cached(fp) # {}
           THEN /\ results' = [results EXCEPT ![i] =
                       Append(@, (CHOOSE c \in Cached(fp) : TRUE).result)]
                /\ UNCHANGED info
           ELSE IF \E w \in info.downloading : w.fp = fp
           THEN /\ results' = [results EXCEPT ![i] = Append(@, Pending(fp))]
                /\ UNCHANGED info
           ELSE \E target \in StatTargets(fs, path) :
                  LET stat == BaseStatFile(fs, target)
                  IN  IF stat # Absent
                      THEN /\ results' = [results EXCEPT ![i] =
                                  Append(@, UpToDate(request, path, stat))]
                           /\ info' = [info EXCEPT !.downloaded = @ \union
                                  {[fp |-> fp, result |-> UpToDate(request, path, stat)]}]
                      ELSE /\ results' = [results EXCEPT ![i] = Append(@, Pending(fp))]
                           /\ info' = [info EXCEPT !.downloading = @ \union
                                  {[fp |-> fp, request |-> request, item |-> i]}]
    /\ UNCHANGED <<settings, Session, input, run, item, pc, running, fs, db, sink, fate,
                   dlLog, prevResults, fsAtStart, faults>>

\* All media requests of item i are issued: the chain waits for the downloads
\* still pending and yields the reactor, or goes on when there is none.
MediaWait(i) ==
    /\ running = i
    /\ pc[i] = "media"
    /\ Len(results[i]) = Len(MediaRequests(item[i]))
    /\ pc' = [pc EXCEPT ![i] = "wait"]
    /\ running' = IF HasPending(results[i]) THEN 0 ELSE i
    /\ UNCHANGED <<settings, Session, input, run, item, results, info, fs, db, sink, fate,
                   dlLog, prevResults, fsAtStart, faults>>

\* every waiter of the fingerprint receives the result
Deliver(rs, fp, result) ==
    [j \in ItemIds |->
        [k \in 1..Len(rs[j]) |->
            IF rs[j][k] = Pending(fp) THEN result ELSE rs[j][k]]]

\* A download ends with a response: file_path is computed again with the
\* response, the body is written to the store and the result is cached.
Downloaded(w, body) ==
    /\ running = 0
    /\ w \in info.downloading
    /\ LET path == FilePath(w.request, Response(body), item[w.item])
           result == Ok([url |-> w.request.url, path |-> path,
                         checksum |-> Md5(body), status |-> "downloaded"])
       IN  /\ fs' = PersistFile(fs, path, body)
           /\ results' = Deliver(results, w.fp, result)
           /\ info' = [downloading |-> info.downloading \ {w},
                       downloaded |-> info.downloaded \union
                                        {[fp |-> w.fp, result |-> result]}]
           /\ dlLog' = dlLog \union
                  {[run |-> run, item |-> w.item, request |-> w.request,
                    body |-> body, path |-> path]}
    /\ UNCHANGED <<settings, Session, input, run, item, pc, running, db, sink, fate,
                   prevResults, fsAtStart, faults>>

\* A download ends with a network error, a non-200 status or an empty body:
\* nothing is written and the failure is the cached result.
DownloadFailed(w) ==
    /\ running = 0
    /\ w \in info.downloading
    /\ faults < MaxFaults
    /\ faults' = faults + 1
    /\ results' = Deliver(results, w.fp, Failed)
    /\ info' = [downloading |-> info.downloading \ {w},
                downloaded |-> info.downloaded \union {[fp |-> w.fp, result |-> Failed]}]
    /\ UNCHANGED <<settings, Session, input, run, item, pc, running, fs, db, sink, fate,
                   dlLog, prevResults, fsAtStart>>

\* (variant: one failure among the results discards them all)
OkValuesUnlessFailure(rs) ==
    IF \E k \in 1..Len(rs) : rs[k].state = "failed" THEN <<>>
    ELSE [k \in 1..Len(rs) |-> rs[k].value]

\* FilesPipeline.item_completed: item["files"] = [x for ok, x in results if ok]
OkValues(rs) ==
    LET oks == SelectSeq(rs, LAMBDA e : e.state = "ok")
    IN  [k \in 1..Len(oks) |-> oks[k].value]

\* QueridoDiarioFilesPipeline.item_completed
ItemCompleted(i) ==
    /\ running \in {0, i}
    /\ pc[i] = "wait"
    /\ ~HasPending(results[i])
    /\ item' = [item EXCEPT ![i] =
           [@ EXCEPT !.file_requests =
                        [k \in 1..Len(@) |-> <<@[k].method, @[k].url>>],
                     !.files = OkValues(results[i])]]
    /\ fate' = [fate EXCEPT ![i] = [k \in 1..Len(OkValues(results[i])) |-> "resolved"]]
    /\ pc' = [pc EXCEPT ![i] = "sink"]
    /\ running' = i
    /\ UNCHANGED <<settings, Session, input, run, results, info, fs, db, sink, dlLog,
                   prevResults, fsAtStart, faults>>

\* ---------------------------------------------------------- MetadataSink
\* SQLDatabasePipeline.process_item, lines 76-91: the row's fields taken from
\* the item, with the two date fields parsed; ValueError when a parse fails
GazetteItem(it) ==
    IF StrpDate(it.date) = ValueError \/ StrpDateTime(it.scraped_at) = ValueError
    THEN ValueError
    ELSE [source_text |-> it.source_text, date |-> StrpDate(it.date),
          edition_number |-> it.edition_number,
          is_extra_edition |-> it.is_extra_edition, power |-> it.power,
          scraped_at |-> StrpDateTime(it.scraped_at),
          territory_id |-> it.territory_id,
          file_path |-> Null, file_url |-> Null, file_checksum |-> Null]

\* lines 100-102: the file's fields are written over the previous file's
WithFile(gazette_item, file_info) ==
    [gazette_item EXCEPT !.file_path = file_info.path,
                         !.file_url = file_info.url,
                         !.file_checksum = file_info.checksum]

\* (variant: the test is made against the other status)
AlreadyDownloadedInverted(file_info) == file_info.status = "downloaded"

\* line 94
AlreadyDownloaded(file_info) == file_info.status = "uptodate"

\* the Gazette row built at line 104; origin records the run, item and file
\* the row was built for (history, not a column)
Gazette(gazette_item, origin) == [columns |-> gazette_item, origin |-> origin]

\* session.add, session.commit (when it succeeds), session.rollback
SessionAdd(s, row) == [s EXCEPT !.pending = Append(@, row)]

SessionCommit(table, s) == table \union {s.pending[k] : k \in 1..Len(s.pending)}

\* (variant: the rollback leaves the added row pending in the session)
SessionRollbackKeeps(s) == s

SessionRollback(s) == [s EXCEPT !.pending = <<>>]

Terminal == {"dropped", "done", "error"}

\* (variant: the file results are taken out of the record, item.pop("files"))
SinkEnterPops(i) ==
    /\ running = i
    /\ pc[i] = "sink"
    /\ IF settings.database_url = Null
       THEN /\ pc' = [pc EXCEPT ![i] = "done"]
            /\ UNCHANGED sink
       ELSE IF Session = Absent
       THEN \* self.Session() raises AttributeError: no factory was made
            /\ pc' = [pc EXCEPT ![i] = "error"]
            /\ UNCHANGED sink
       ELSE IF GazetteItem(item[i]) = ValueError
       THEN /\ pc' = [pc EXCEPT ![i] = "error"]
            /\ sink' = [sink EXCEPT ![i] = [NoSink EXCEPT !.session = "open"]]
       ELSE /\ pc' = [pc EXCEPT ![i] = "loop"]
            /\ item' = [item EXCEPT ![i].files = <<>>]
            /\ sink' = [sink EXCEPT ![i] =
                   [session |-> "open", pending |-> <<>>,
                    gazette_item |-> GazetteItem(item[i]), k |-> 1]]
    /\ running' = IF /\ settings.database_url # Null
                     /\ Session # Absent
                     /\ GazetteItem(item[i]) # ValueError
                  THEN i ELSE 0
    /\ (pc'[i] # "loop") => (item' = item)
    /\ UNCHANGED <<settings, Session, input, run, results, info, fs, db, fate, dlLog,
                   prevResults, fsAtStart, faults>>

\* process_item is entered: lines 71-91
SinkEnter(i) ==
    /\ running = i
    /\ pc[i] = "sink"
    /\ IF settings.database_url = Null
       THEN /\ pc' = [pc EXCEPT ![i] = "done"]
            /\ UNCHANGED sink
       ELSE IF Session = Absent
       THEN \* self.Session() raises AttributeError: no factory was made
            /\ pc' = [pc EXCEPT ![i] = "error"]
            /\ UNCHANGED sink
       ELSE IF GazetteItem(item[i]) = ValueError
       THEN /\ pc' = [pc EXCEPT ![i] = "error"]
            /\ sink' = [sink EXCEPT ![i] = [NoSink EXCEPT !.session = "open"]]
       ELSE /\ pc' = [pc EXCEPT ![i] = "loop"]
            /\ sink' = [sink EXCEPT ![i] =
                   [session |-> "open", pending |-> <<>>,
                    gazette_item |-> GazetteItem(item[i]), k |-> 1]]
    /\ running' = IF /\ settings.database_url # Null
                     /\ Session # Absent
                     /\ GazetteItem(item[i]) # ValueError
                  THEN i ELSE 0
    /\ UNCHANGED <<settings, Session, input, run, item, results, info, fs, db, fate, dlLog,
                   prevResults, fsAtStart, faults>>

\* (variant: every row is built from the first file of the record)
SinkFileFirst(i) ==
    /\ running = i
    /\ pc[i] = "loop"
    /\ LET k == sink[i].k
           files == item[i].files
       IN  IF k > Len(files)
           THEN /\ sink' = [sink EXCEPT ![i].session = "closed"]
                /\ pc' = [pc EXCEPT ![i] = "done"]
                /\ running' = 0
                /\ UNCHANGED fate
           ELSE IF AlreadyDownloaded(files[k])
           THEN /\ sink' = [sink EXCEPT ![i].k = k + 1]
                /\ fate' = [fate EXCEPT ![i][k] = "skipped"]
                /\ UNCHANGED <<pc, running>>
           ELSE /\ sink' = [sink EXCEPT ![i] =
                       SessionAdd([@ EXCEPT !.gazette_item = WithFile(@, files[1])],
                                  Gazette(WithFile(@.gazette_item, files[1]),
                                          [run |-> run, item |-> i, k |-> k]))]
                /\ pc' = [pc EXCEPT ![i] = "commit"]
                /\ UNCHANGED <<fate, running>>
    /\ UNCHANGED <<settings, Session, input, run, item, results, info, fs, db, dlLog,
                   prevResults, fsAtStart, faults>>

\* one turn of the loop over item["files"], lines 93-105, or its end, 117-119
SinkFile(i) ==
    /\ running = i
    /\ pc[i] = "loop"
    /\ LET k == sink[i].k
           files == item[i].files
       IN  IF k > Len(files)
           THEN /\ sink' = [sink EXCEPT ![i].session = "closed"]
                /\ pc' = [pc EXCEPT ![i] = "done"]
                /\ running' = 0
                /\ UNCHANGED fate
           ELSE IF AlreadyDownloaded(files[k])
           THEN /\ sink' = [sink EXCEPT ![i].k = k + 1]
                /\ fate' = [fate EXCEPT ![i][k] = "skipped"]
                /\ UNCHANGED <<pc, running>>
           ELSE /\ sink' = [sink EXCEPT ![i] =
                       SessionAdd([@ EXCEPT !.gazette_item = WithFile(@, files[k])],
                                  Gazette(WithFile(@.gazette_item, files[k]),
                                          [run |-> run, item |-> i, k |-> k]))]
                /\ pc' = [pc EXCEPT ![i] = "commit"]
                /\ UNCHANGED <<fate, running>>
    /\ UNCHANGED <<settings, Session, input, run, item, results, info, fs, db, dlLog,
                   prevResults, fsAtStart, faults>>

\* (variant: the SQLAlchemyError is not caught and leaves process_item)
SinkCommitRaises(i, committed) ==
    /\ running = i
    /\ pc[i] = "commit"
    /\ IF committed
       THEN /\ db' = SessionCommit(db, sink[i])
            /\ sink' = [sink EXCEPT ![i] = [@ EXCEPT !.pending = <<>>, !.k = @ + 1]]
            /\ fate' = [fate EXCEPT ![i][sink[i].k] = "persisted"]
            /\ pc' = [pc EXCEPT ![i] = "loop"]
            /\ UNCHANGED running
       ELSE /\ faults < MaxFaults
            /\ fate' = [fate EXCEPT ![i][sink[i].k] = "discarded"]
            /\ pc' = [pc EXCEPT ![i] = "error"]
            /\ running' = 0
            /\ UNCHANGED <<db, sink>>
    /\ faults' = IF committed THEN faults ELSE faults + 1
    /\ UNCHANGED <<settings, Session, input, run, item, results, info, fs, dlLog,
                   prevResults, fsAtStart>>

\* session.commit() at line 107: it stores the pending rows, or raises an
\* SQLAlchemyError and the handler rolls the session back (lines 108-115)
SinkCommit(i, committed) ==
    /\ running = i
    /\ pc[i] = "commit"
    /\ IF committed
       THEN /\ db' = SessionCommit(db, sink[i])
            /\ sink' = [sink EXCEPT ![i] = [@ EXCEPT !.pending = <<>>, !.k = @ + 1]]
            /\ fate' = [fate EXCEPT ![i][sink[i].k] = "persisted"]
       ELSE /\ faults < MaxFaults
            /\ db' = db
            /\ sink' = [sink EXCEPT ![i] = [SessionRollback(@) EXCEPT !.k = @ + 1]]
            /\ fate' = [fate EXCEPT ![i][sink[i].k] = "discarded"]
    /\ faults' = IF committed THEN faults ELSE faults + 1
    /\ pc' = [pc EXCEPT ![i] = "loop"]
    /\ UNCHANGED <<settings, Session, input, run, item, running, results, info, fs, dlLog,
                   prevResults, fsAtStart>>

\* --------------------------------------------------------------- the runs
\* The crawl ends and the crawler is started again on the same input: the
\* store and the table stay, everything in memory is new.
NextRun ==
    /\ running = 0
    /\ run < NumRuns
    /\ \A i \in ItemIds : pc[i] \in Terminal
    /\ run' = run + 1
    /\ item' = input
    /\ pc' = [i \in ItemIds |-> "new"]
    /\ results' = [i \in ItemIds |-> <<>>]
    /\ info' = NoInfo
    /\ sink' = [i \in ItemIds |-> NoSink]
    /\ fate' = [i \in ItemIds |-> <<>>]
    /\ prevResults' = results
    /\ fsAtStart' = fs
    /\ Session' = OpenSpider(settings.database_url)
    /\ UNCHANGED <<settings, input, running, fs, db, dlLog, faults>>

Next ==
    \/ \E i \in ItemIds : DateGate(i)
    \/ \E i \in ItemIds : Normalize(i)
    \/ \E i \in ItemIds : MediaRequest(i)
    \/ \E i \in ItemIds : MediaWait(i)
    \/ \E w \in info.downloading, body \in Bodies : Downloaded(w, body)
    \/ \E w \in info.downloading : DownloadFailed(w)
    \/ \E i \in ItemIds : ItemCompleted(i)
    \/ \E i \in ItemIds : SinkEnter(i)
    \/ \E i \in ItemIds : SinkFile(i)
    \/ \E i \in ItemIds, committed \in BOOLEAN : SinkCommit(i, committed)
    \/ NextRun

Spec == Init /\ [][Next]_vars

\* =================================================================== claims
\* the position of a date on the calendar line, for comparing two dates
DayNumber(dte) == (dte.y * 12 + dte.m) * 31 + dte.d

\* record i is dated before the cutoff configured for the source
BeforeCutoff(i) ==
    /\ settings.start_date # Absent
    /\ DayNumber(input[i].date) < DayNumber(settings.start_date)

RunEnded == running = 0 /\ \A i \in ItemIds : pc[i] \in Terminal

RowsOfRun(r) == {row \in db : row.origin.run = r}

\* the file results handed to the sink in this run, as <<item, index>>
FileResults == {ik \in ItemIds \X (1..MaxFiles) : ik[2] <= Len(item[ik[1]].files)}

StatusOf(ik) == item[ik[1]].files[ik[2]].status

\* C7: a record dated before the configured cutoff is rejected by DateGate
\* before any later stage runs: it is never normalized, none of its files is
\* probed, fetched or written, and no row is ever persisted for it.
C7_NoWorkForRejected ==
    \A i \in ItemIds :
        BeforeCutoff(i) =>
            /\ pc[i] \in {"new", "dropped"}
            /\ item[i] = input[i]
            /\ results[i] = <<>>
            /\ sink[i] = NoSink
            /\ \A w \in info.downloading : w.item # i
            /\ \A e \in dlLog : e.item # i
            /\ \A row \in db : row.origin.item # i

C7_Witness ==
    \E i, j \in ItemIds :
        /\ BeforeCutoff(i) /\ pc[i] = "dropped"
        /\ pc[j] = "done" /\ dlLog # {} /\ db # {}

\* C8: DateGate rejects a record exactly when a cutoff is configured and the
\* record's date is strictly earlier than it; every other record (dated on or
\* after the cutoff, or no cutoff configured) is passed on with all of its
\* fields unchanged.
C8_GateExact ==
    [][\A i \in ItemIds :
          (pc[i] = "new" /\ pc'[i] # "new") =>
              /\ (pc'[i] = "dropped") <=> BeforeCutoff(i)
              /\ (pc'[i] # "dropped") => (pc'[i] = "gated" /\ item'[i] = item[i])
      ]_vars

C8_Witness ==
    \E i, j \in ItemIds :
        /\ pc[i] = "gated" /\ settings.start_date = input[i].date
        /\ pc[j] = "dropped"

\* C3 (as claimed): in every state of a run the table holds at most one row
\* created in that run per (file checksum, file path) pair, and no row was
\* created for a file result whose status is uptodate.
C3_OneRowPerFile ==
    /\ \A r1, r2 \in RowsOfRun(run) :
           (/\ r1.columns.file_checksum = r2.columns.file_checksum
            /\ r1.columns.file_path = r2.columns.file_path) => r1 = r2
    /\ \A row \in RowsOfRun(run) :
           StatusOf(<<row.origin.item, row.origin.k>>) # "uptodate"

\* C4 (as claimed): at the end of a run with persistence enabled and every
\* record through the sink, the rows added in the run are as many as the file
\* results with status downloaded.
C4_RowsEqualDownloaded ==
    (/\ RunEnded
     /\ settings.database_url # Null
     /\ \A i \in ItemIds : pc[i] # "error") =>
        Cardinality(RowsOfRun(run)) =
            Cardinality({ik \in FileResults : StatusOf(ik) = "downloaded"})

\* C4 (amended): at the end of a run with persistence enabled, the rows added
\* in the run are as many as the downloaded file results whose row was
\* committed: one per downloaded result of a record that went through the
\* file loop, less those whose commit failed; uptodate results add none.
C4_RowsEqualCommitted ==
    (RunEnded /\ settings.database_url # Null) =>
        /\ Cardinality(RowsOfRun(run)) =
              Cardinality({ik \in FileResults :
                  /\ StatusOf(ik) = "downloaded"
                  /\ pc[ik[1]] = "done"
                  /\ fate[ik[1]][ik[2]] # "discarded"})
        /\ \A row \in RowsOfRun(run) :
              StatusOf(<<row.origin.item, row.origin.k>>) = "downloaded"

C4_Witness ==
    /\ RunEnded /\ settings.database_url # Null
    /\ \E ik \in FileResults : StatusOf(ik) = "uptodate"
    /\ \E ik \in FileResults : StatusOf(ik) = "downloaded" /\ fate[ik[1]][ik[2]] = "discarded"
    /\ \E ik \in FileResults : StatusOf(ik) = "downloaded" /\ fate[ik[1]][ik[2]] = "persisted"
    /\ RowsOfRun(run) # {}

\* C5: a commit that fails does not abort the record or the run: the record
\* stays in the file loop, and every record that returns from the sink has
\* had a write attempted for each of its files that is not uptodate, whatever
\* failed before it.
C5_FailureDoesNotAbort ==
    \A i \in ItemIds :
        /\ (\E k \in 1..Len(fate[i]) : fate[i][k] = "discarded") =>
               pc[i] \in {"loop", "commit", "done"}
        /\ (pc[i] = "done" /\ settings.database_url # Null) =>
               \A k \in 1..Len(item[i].files) :
                   IF item[i].files[k].status = "uptodate"
                   THEN fate[i][k] = "skipped"
                   ELSE fate[i][k] \in {"persisted", "discarded"}

C5_Witness ==
    \E i \in ItemIds :
        /\ Len(fate[i]) = 2
        /\ fate[i][1] = "discarded" /\ fate[i][2] = "persisted"
        /\ \E row \in RowsOfRun(run) : row.origin = [run |-> run, item |-> i, k |-> 2]

\* C6 (as claimed): every row is added to a session with no other row pending
\* (its own transaction), and once process_item is left, by return or by an
\* exception, the session it opened is closed.
C6_SessionReleased ==
    \A i \in ItemIds :
        /\ Len(sink[i].pending) <= 1
        /\ pc[i] \in {"done", "error"} => sink[i].session # "open"

\* the request behind the k-th media result of record i
RequestOf(i, k) == MediaRequests(input[i])[k]

\* the records of the batch that pass the gate and carry the request
Carriers(request) ==
    {j \in ItemIds :
        /\ ~BeforeCutoff(j)
        /\ \E k \in 1..Len(MediaRequests(input[j])) : RequestOf(j, k) = request}

\* the run found, in the directory of record j, a file with the base name of
\* the request
StoredAtStart(j, request) ==
    \E f \in fsAtStart :
        /\ f.path.territory_id = settings.TERRITORY_ID
        /\ f.path.date = DateStr(input[j].date)
        /\ f.path.stem = Sha1(request.url)

C2_SamePathsInBothRuns ==
    run > 1 =>
        \A i \in ItemIds : \A k \in 1..Len(results[i]) :
            (/\ results[i][k].state = "ok"
             /\ k <= Len(prevResults[i])
             /\ prevResults[i][k].state = "ok") =>
                results[i][k].value.path = prevResults[i][k].value.path

\* the files of the store that have the directory and base name of the path
\* and some extension
WithExtension(files, path) ==
    {f \in files :
        /\ f.path.territory_id = path.territory_id
        /\ f.path.date = path.date
        /\ f.path.stem = path.stem
        /\ f.path.suffix # ""}

\* C9: when the store is probed for a path without extension and a file with
\* that base name and some extension exists in the directory, the probe
\* resolves to such a file and the reference is uptodate (with that file's
\* checksum); when there is none, and when the path has an extension, the path
\* itself is probed: uptodate if it exists, a download if not.
C9_ProbeResolves ==
    [][\A i \in ItemIds :
          (/\ pc[i] = "media"
           /\ Len(results'[i]) = Len(results[i]) + 1
           /\ Cached(Fingerprint(RequestOf(i, Len(results'[i])))) = {}
           /\ \A w \in info.downloading : w.fp # Fingerprint(RequestOf(i, Len(results'[i])))) =>
              LET request == RequestOf(i, Len(results'[i]))
                  expected == [territory_id |-> item[i].territory_id, date |-> item[i].date,
                               stem |-> Sha1(request.url), suffix |-> request.url.suffix]
                  new == results'[i][Len(results'[i])]
                  UpToDateWith(fls) ==
                      /\ new.state = "ok" /\ new.value.status = "uptodate"
                      /\ \E f \in fls : new.value.checksum = Md5(f.body)
              IN  IF expected.suffix = "" /\ WithExtension(fs, expected) # {}
                  THEN UpToDateWith(WithExtension(fs, expected))
                  ELSE IF \E f \in fs : f.path = expected
                  THEN UpToDateWith({f \in fs : f.path = expected})
                  ELSE new = Pending(Fingerprint(request))
      ]_vars

C9_Witness ==
    \E i \in ItemIds : \E k \in 1..Len(results[i]) :
        /\ results[i][k].state = "ok" /\ results[i][k].value.status = "uptodate"
        /\ results[i][k].value.path.suffix = ""
        /\ WithExtension(fs, results[i][k].value.path) # {}
        /\ \A f \in fs : f.path # results[i][k].value.path

\* C10: a downloaded file whose URL-derived name has no extension is stored
\* under the extension its leading bytes give (%PDF gives pdf) and with no
\* extension when the bytes match no known signature; a name that has an
\* extension keeps it whatever the content is.
C10_ExtensionInferred ==
    \A e \in dlLog :
        /\ e.path.stem = Sha1(e.request.url)
        /\ e.path.suffix =
              IF e.request.url.suffix # "" THEN e.request.url.suffix
              ELSE IF Len(e.body) >= 4 /\ SubSeq(e.body, 1, 4) = <<37, 80, 68, 70>> THEN "pdf"
              ELSE IF Len(e.body) >= 4 /\ SubSeq(e.body, 1, 4) = <<80, 75, 3, 4>> THEN "zip"
              ELSE ""
        /\ \E f \in fs : f.path = e.path

C10_Witness ==
    /\ \E e \in dlLog : e.request.url.suffix = "" /\ e.body = BodyPdf /\ e.path.suffix = "pdf"
    /\ \E e \in dlLog : e.request.url.suffix = "" /\ e.body = BodyHtml /\ e.path.suffix = ""
    /\ \E e \in dlLog : e.request.url.suffix = "pdf" /\ e.body = BodyHtml /\ e.path.suffix = "pdf"

\* C11: every stored file was written by a download of some record, and its
\* path reads <source identifier>/<publication date>/<base name>[.<extension>]
\* with the identifier configured for the source, the canonical text of that
\* record's publication date and the base name derived from the request, and
\* with no other leading directory.
C11_StoragePath ==
    /\ \A f \in fs : \E e \in dlLog : e.path = f.path
    /\ \A e \in dlLog :
           PathStr(e.path) =
               <<settings.TERRITORY_ID, "/">>
                   \o Digits(input[e.item].date.y, 4) \o <<"-">>
                   \o Digits(input[e.item].date.m, 2) \o <<"-">>
                   \o Digits(input[e.item].date.d, 2) \o <<"/">>
                   \o Sha1(e.request.url)
                   \o (IF e.path.suffix = "" THEN <<>> ELSE <<".", e.path.suffix>>)

C11_Witness ==
    \E f \in fs :
        PathStr(f.path) =
            <<"X", "/", "2", "0", "2", "4", "-", "0", "1", "-", "0", "5", "/">>
                \o Sha1(UrlPlain) \o <<".", "pdf">>

\* the three final states of a file result in the sink
Settled == {"persisted", "skipped", "discarded"}

\* C12 (as claimed): with persistence enabled, every file result enters the
\* sink as resolved; when process_item is left it is in exactly one of the
\* states persisted, skipped, discarded; and a file result that has reached
\* one of the three never leaves it during the run.
C12_ResultLifecycle ==
    [][\A i \in ItemIds :
          (run' = run /\ settings.database_url # Null) =>
              /\ (pc[i] = "wait" /\ pc'[i] = "sink") =>
                     /\ Len(fate'[i]) = Len(item'[i].files)
                     /\ \A k \in 1..Len(fate'[i]) : fate'[i][k] = "resolved"
              /\ (pc[i] \in {"sink", "loop", "commit"} /\ pc'[i] \in {"done", "error"}) =>
                     \A k \in 1..Len(fate'[i]) : fate'[i][k] \in Settled
              /\ \A k \in 1..Len(fate[i]) :
                     fate[i][k] \in Settled => fate'[i][k] = fate[i][k]
      ]_vars

StoredFor(path) ==
    \E f \in fs :
        /\ f.path.territory_id = path.territory_id
        /\ f.path.date = path.date
        /\ f.path.stem = path.stem

\* C14: when no database URL is configured, no session factory is made, no
\* record ever has a session, a pending row or a settled file, the table
\* stays empty, and a record that returns from the sink has had every one of
\* its references resolved, with a file in the store for each that succeeded.
C14_SinkDisabled ==
    settings.database_url = Null =>
        /\ Session = Absent
        /\ db = {}
        /\ \A i \in ItemIds :
               /\ sink[i] = NoSink
               /\ pc[i] \notin {"loop", "commit"}
               /\ \A k \in 1..Len(fate[i]) : fate[i][k] = "resolved"
               /\ pc[i] = "done" =>
                      /\ Len(results[i]) = Len(MediaRequests(input[i]))
                      /\ ~HasPending(results[i])
                      /\ Len(item[i].files) =
                             Cardinality({k \in 1..Len(results[i]) : results[i][k].state = "ok"})
                      /\ \A k \in 1..Len(item[i].files) : StoredFor(item[i].files[k].path)

C14_Witness ==
    /\ settings.database_url = Null
    /\ \E i \in ItemIds :
           /\ pc[i] = "done" /\ Len(item[i].files) = 2
           /\ item[i].files[1].status = "downloaded"
           /\ \E f \in fs : f.path = item[i].files[1].path

\* how many of the first k results of record i succeeded
OkBefore(i, k) == Cardinality({j \in 1..k : results[i][j].state = "ok"})

\* C15: a failed fetch stays with its reference: every reference still
\* awaited has its download in flight whatever failed beside it, and a record
\* in the sink has a result for each of its references and carries, in order,
\* the file results of exactly those that succeeded.
C15_FailureConfined ==
    \A i \in ItemIds :
        /\ \A k \in 1..Len(results[i]) :
               results[i][k].state = "pending" =>
                   \E w \in info.downloading : w.fp = results[i][k].fp
        /\ pc[i] \in {"sink", "loop", "commit", "done"} =>
               /\ Len(results[i]) = Len(MediaRequests(input[i]))
               /\ \A k \in 1..Len(results[i]) : results[i][k].state \in {"ok", "failed"}
               /\ Len(item[i].files) = OkBefore(i, Len(results[i]))
               /\ \A k \in 1..Len(results[i]) :
                      results[i][k].state = "ok" =>
                          item[i].files[OkBefore(i, k)] = results[i][k].value

C15_Witness ==
    \E i, j \in ItemIds :
        /\ i # j /\ pc[i] = "done" /\ pc[j] = "done"
        /\ Len(results[i]) = 2
        /\ results[i][1].state = "failed" /\ results[i][2].state = "ok"
        /\ Len(item[i].files) = 1 /\ item[i].files[1].status = "downloaded"
        /\ Len(item[j].files) >= 1

\* C16 (as claimed): for every record and every source configuration the
\* Normalizer returns the record (it never raises) with the source identifier
\* set to the one configured, the publication date replaced by its canonical
\* text, the scrape timestamp set to the text of a clock instant followed by
\* the zone marker "Z", and every other field as it was.
C16_NormalizerSucceeds ==
    [][\A i \in ItemIds :
          (pc[i] = "gated" /\ pc'[i] # "gated") =>
              /\ pc'[i] = "media"
              /\ item'[i].territory_id = settings.TERRITORY_ID
              /\ item'[i].date = DateStr(item[i].date)
              /\ \E now \in Instants : item'[i].scraped_at = IsoFormat(now) \o <<"Z">>
              /\ item'[i].scraped_at[Len(item'[i].scraped_at)] = "Z"
              /\ item'[i] = [item[i] EXCEPT !.territory_id = item'[i].territory_id,
                                            !.date = item'[i].date,
                                            !.scraped_at = item'[i].scraped_at]
      ]_vars

\* record i has been through the Normalizer in this run
Normalized(i) == item[i].territory_id # Null

\* C17 (as claimed): the two date texts the Normalizer writes are accepted by
\* the parsing of the sink, whatever the instant of the clock was: the date
\* text parses back to the record's date, the timestamp text parses to an
\* instant, and no normalized record fails in the sink before the file loop.
C17_SharedRepresentation ==
    \A i \in ItemIds :
        Normalized(i) =>
            /\ StrpDate(item[i].date) = input[i].date
            /\ StrpDateTime(item[i].scraped_at) \in Instants
            /\ pc[i] # "error"

\* C18: every row persisted in the run carries the normalized fields of its
\* record (source identifier, publication date, edition number, extra-edition
\* flag, power, source text, scrape timestamp) and the path, URL and checksum
\* of the very file result it was built for.
C18_RowFields ==
    \A row \in RowsOfRun(run) :
        LET it == item[row.origin.item]
            file_info == it.files[row.origin.k]
            c == row.columns
        IN  /\ c.territory_id = settings.TERRITORY_ID
            /\ DateStr(c.date) = it.date
            /\ c.date = input[row.origin.item].date
            /\ c.edition_number = it.edition_number
            /\ c.is_extra_edition = it.is_extra_edition
            /\ c.power = it.power
            /\ c.source_text = it.source_text
            /\ IsoFormat(c.scraped_at) \o <<"Z">> = it.scraped_at
            /\ c.file_path = file_info.path
            /\ c.file_url = file_info.url
            /\ c.file_checksum = file_info.checksum

C18_Witness ==
    \E i \in ItemIds :
        /\ Len(item[i].files) = 2
        /\ item[i].files[1].path # item[i].files[2].path
        /\ item[i].files[1].checksum # item[i].files[2].checksum
        /\ fate[i] = <<"persisted", "persisted">>
        /\ \A k \in 1..2 :
               \E row \in RowsOfRun(run) : row.origin = [run |-> run, item |-> i, k |-> k]

\* C19: a row whose commit failed is never persisted: once its file is
\* discarded the row is neither in the table nor pending in any session, and
\* at each commit the session holds the row of the current file only.
C19_DiscardedStaysOut ==
    \A i \in ItemIds :
        /\ \A k \in 1..Len(fate[i]) :
               fate[i][k] = "discarded" =>
                   /\ \A row \in db : row.origin # [run |-> run, item |-> i, k |-> k]
                   /\ \A n \in 1..Len(sink[i].pending) :
                          sink[i].pending[n].origin # [run |-> run, item |-> i, k |-> k]
        /\ pc[i] = "commit" =>
               /\ Len(sink[i].pending) = 1
               /\ sink[i].pending[1].origin = [run |-> run, item |-> i, k |-> sink[i].k]

C19_Witness ==
    \E i \in ItemIds :
        /\ pc[i] = "done"
        /\ fate[i] = <<"discarded", "persisted">>
        /\ {row.origin.k : row \in {r \in RowsOfRun(run) : r.origin.item = i}} = {2}

\* C20: process_item of the sink leaves the record as it found it: no step
\* taken inside it (persistence disabled, a file skipped, a row persisted, a
\* row discarded, the return) changes any field of the record.
C20_RecordUnchanged ==
    [][\A i \in ItemIds :
          (pc[i] \in {"sink", "loop", "commit"} /\ run' = run) => item'[i] = item[i]
      ]_vars

C20_Witness ==
    \E i \in ItemIds :
        /\ pc[i] = "done" /\ settings.database_url # Null
        /\ fate[i] = <<"skipped", "persisted">>
        /\ item[i].date = DateStr(input[i].date)
        /\ StrpDateTime(item[i].scraped_at) \in Instants
        /\ item[i].files = OkValues(results[i])

====
